---- MODULE Spec2Model ----
(***************************************************************************)
(* Bot decision-and-combat core of StationIapetus: the per-tick update of  *)
(* a bot (command drain, behaviour tree with the melee gate and action     *)
(* leaves, timers, animation machines) and the producers that feed its     *)
(* command queues.                                                         *)
(*                                                                         *)
(* Units: time is counted in tenths of a second (0.3 s = 3, 0.8 s = 8,     *)
(* playback speed 1.3 = 13); health and damage are whole points;           *)
(* probabilities are percentages.                                          *)
(***************************************************************************)
EXTENDS Integers, Sequences, FiniteSets, TLC

(* ------------------------------ bounds --------------------------------- *)

\* Number of ticks taken over a run
MaxTicks == 3
\* Number of commands producers enqueue over a run of the command pipeline
MaxCommands == 2
\* Number of damage commands producers enqueue over a run of the whole bot
MaxShots == 1
\* How far below zero a timer is followed in a run without end
MaxDebt == 4
\* Number of shot trails created in a run
MaxTrails == 3
\* Number of timeline signals a clip's queue holds before the engine stops emitting
MaxEvents == 2

(* ------------------------- program constants --------------------------- *)

\* self.attack_timeout = 0.3
ATTACK_COOLDOWN == 3
\* .set_speed(1.3)
ATTACK_SPEED == 13
\* self.restoration_time = 0.8
RESTORATION_TIME == 8
\* self.last_health - self.health > 20.0
GRUNT_THRESHOLD == 20
\* self.damage(amount * 1000.0)
CRITICAL_MULTIPLIER == 1000
\* who: Default::default(), the empty handle
HANDLE_NONE == 0

\* Health every character starts with
FULL_HEALTH == 100

(* ------------------------------ the world ------------------------------ *)

\* Handles of the scripted bots
Bots == {1, 2}
\* Handle of the player
Player == {3}
\* Every character: the bots and the player
Actors == Bots \cup Player
\* Weapon nodes, each owned by a character
Weapons == {4}
WeaponOwner(w) == CHOOSE a \in Player : TRUE
Handles == {HANDLE_NONE} \cup Actors \cup Weapons

\* Tick deltas the host passes to on_update
Deltas == {1, 3}

Kinds == {"Mutant", "Zombie"}

\* data/configs/bots.ron, read once by BotDefinitionsContainer::new
Definition(kind) ==
    IF kind = "Mutant"
    THEN [health |-> 100, can_use_weapons |-> FALSE,
          attack_damage |-> <<10, 25>>, attack_sounds |-> 1, pain_sounds |-> 1]
    ELSE [health |-> 100, can_use_weapons |-> TRUE,
          attack_damage |-> <<25, 10>>, attack_sounds |-> 1, pain_sounds |-> 1]

\* definition.attack_animations.len() == upper_body_machine.attack_animations.len()
NumAttacks(def) == Len(def.attack_damage)

\* faulty variant: the draw includes the length of the list
AttackIndices_Inclusive(def) == 0 .. NumAttacks(def)

\* gen_range(0..attack_animations.len())
AttackIndices(def) == 0 .. (NumAttacks(def) - 1)

\* definition.attack_animations[i].damage.amount()
AttackAmount(def, i) == def.attack_damage[i + 1]

Signals == {"hit", "other"}
\* UpperBodyMachine::HIT_SIGNAL
HIT_SIGNAL == "hit"

\* Option<Target>: <<>> is None, <<t>> is Some(t)
NoTarget == <<>>
SomeTarget(h, p) == <<[handle |-> h, position |-> p]>>

\* The damage commands producers send (projectile hits, explosions)
\* The shots fired at a bot in a run of the whole bot: one that staggers, one that kills
ShotMenu ==
    { [who |-> 3, amount |-> 25, hitbox |-> "body", critical_shot_probability |-> 100],
      [who |-> HANDLE_NONE, amount |-> 25, hitbox |-> "head", critical_shot_probability |-> 100] }

\* The hits a bot takes in a run of the damage rules: sources that resolve to the player,
\* to the player's weapon, to the bot itself or to nothing; head and body hit boxes;
\* critical probabilities below, at, between and above the ends of the range
HitMenu ==
    { [who |-> 3, amount |-> 10, hitbox |-> "head", critical_shot_probability |-> 150],
      [who |-> 4, amount |-> 10, hitbox |-> "head", critical_shot_probability |-> -50],
      [who |-> 1, amount |-> 25, hitbox |-> "body", critical_shot_probability |-> 150],
      [who |-> HANDLE_NONE, amount |-> 10, hitbox |-> "head", critical_shot_probability |-> 0],
      [who |-> HANDLE_NONE, amount |-> 10, hitbox |-> "head", critical_shot_probability |-> 100],
      [who |-> HANDLE_NONE, amount |-> 25, hitbox |-> "none", critical_shot_probability |-> 100] }

\* Places a character can stand at
Places(a) == {a, a + 10}

DamageMenu ==
    { [who |-> HANDLE_NONE, amount |-> 15, hitbox |-> "none", critical_shot_probability |-> 0],
      [who |-> 1, amount |-> 25, hitbox |-> "body", critical_shot_probability |-> 100],
      [who |-> 4, amount |-> 10, hitbox |-> "head", critical_shot_probability |-> 50],
      [who |-> HANDLE_NONE, amount |-> 25, hitbox |-> "head", critical_shot_probability |-> 100] }

VARIABLES
    frame_dt,          \* ScriptContext::dt, the fixed time step of the host loop
    alive,             \* Level::actors: the characters present in the scene
    position,          \* character.position(&scene.graph)
    kind,              \* Bot::kind, fixing Bot::definition
    definitions,       \* DEFINITIONS.map: the table data/configs/bots.ron holds
    health,            \* Character::health
    last_health,       \* Character::last_health
    commands,          \* Character's queue of CharacterCommand
    target,            \* Bot::target
    restoration_time,  \* Bot::restoration_time
    head_exploded,     \* Bot::head_exploded
    commands_queue,    \* Bot::commands_queue (BotCommand)
    behavior,          \* the DoMeleeAttack leaf of Bot::behavior
    animations,        \* scene.animations entries of upper_body_machine.attack_animations
    active_state,      \* upper_body_machine.machine.active_state()
    ctx,               \* the BehaviorContext of the tick in progress
    pc,                \* position inside Bot::on_update: [bot, at]
    ticks,             \* ghost: number of ticks taken
    next_id,           \* ghost: number of the next enqueued command
    processed,         \* ghost: the commands the drain of the tick in progress handled, in order
    sent,              \* ghost: per character, the numbers of the commands enqueued for it
    done,              \* ghost: per bot, the numbers of the commands handled in earlier ticks
    since_end,         \* ghost: tick delta accumulated since the playing clip ended, else -1
    since_stagger,     \* ghost: tick delta accumulated since the bot last staggered, else -1
    last_splash,       \* ghost: the arguments of the last call of apply_splash_damage
    container,         \* ShotTrailContainer::container
    removed,           \* ghost: per scene node, the number of scene.remove_node calls
    reaction_state,    \* LaserSight::reaction_state
    sight_obs,         \* ghost: what the sight updates did since the last set_reaction
    obs                \* ghost: what the leaves did in the tick in progress

vars == <<frame_dt, alive, position, kind, definitions, health, last_health, commands, target, restoration_time,
          head_exploded, commands_queue, behavior, animations, active_state, ctx, pc,
          ticks, next_id, processed, sent, done, since_end, since_stagger, last_splash,
          container, removed, reaction_state, sight_obs, obs>>

Idle == [bot |-> 0, at |-> "idle"]
At(b, where) == pc = [bot |-> b, at |-> where]

NoCtx == [dt |-> 0, restoration_time |-> 0, attack_animation_index |-> 0,
          is_attacking |-> FALSE, built |-> FALSE]

NoSplash == [n |-> 0, center |-> 0, radius |-> 0, who |-> 0, amount |-> 0,
             critical_shot_probability |-> 0]

NoObs == [gate |-> "none", action |-> "none", ticked |-> FALSE, started |-> FALSE,
          reset |-> FALSE, timeout_before |-> 0, index_before |-> 0, since_end |-> -1,
          pushed |-> <<>>, sounds |-> 0, events |-> <<>>, grunts |-> 0, applies |-> <<>>]

\* DEFINITIONS.map.get(&kind).unwrap(), kept in Bot::definition
DefOf(b) == definitions[kind[b]]

(* ------------------------- Character (character.rs) -------------------- *)

\* Character::is_dead
IsDead(h) == h <= 0

\* Character::damage
Damage(h, amount) == h - amount

\* try_get_character_mut(handle, graph): the handle is a character still in the scene
IsCharacter(h, present) == h \in Actors /\ h \in present

\* utils::is_probability_event_occurred: certain at 100 %, impossible at 0 %,
\* decided by the random draw in between
ProbabilityEventOccurred(p, roll) ==
    IF p >= 100 THEN TRUE ELSE IF p <= 0 THEN FALSE ELSE roll

Clamp(x, lo, hi) == IF x < lo THEN lo ELSE IF x > hi THEN hi ELSE x

(* ----------------------- Bot::poll_commands ---------------------------- *)

\* faulty variant: the handles are not looked up in the scene, a removed shooter resolves
ResolveShooter_Stale(who, present) ==
    IF who \in Actors THEN <<who>>
    ELSE IF who \in Weapons THEN <<WeaponOwner(who)>>
    ELSE <<>>

\* scene.graph.try_get(who) and the script's component: a character, else the
\* character owning the weapon `who`, else nothing
ResolveShooter(who, present) ==
    IF IsCharacter(who, present) THEN <<who>>
    ELSE IF who \in Weapons /\ IsCharacter(WeaponOwner(who), present)
         THEN <<WeaponOwner(who)>>
    ELSE <<>>

\* Bot::set_target
SetTargetTo(h, p) == SomeTarget(h, p)

\* faulty variant: a bot that already has a target keeps it
AcquireTarget_KeepFirst(old, who, present, pos) ==
    LET r == ResolveShooter(who, present)
    IN IF r = <<>> \/ old # NoTarget THEN old ELSE SetTargetTo(r[1], pos[r[1]])

\* faulty variant: a bot that has a target takes the shooter's handle but keeps the
\* position it had recorded
AcquireTarget_OldPosition(old, who, present, pos) ==
    LET r == ResolveShooter(who, present)
    IN IF r = <<>> THEN old
       ELSE IF old = NoTarget THEN SetTargetTo(r[1], pos[r[1]])
       ELSE SetTargetTo(r[1], old[1].position)

\* the target after the shooter of a Damage command was looked up
AcquireTarget(old, who, present, pos) ==
    LET r == ResolveShooter(who, present)
    IN IF r = <<>> THEN old ELSE SetTargetTo(r[1], pos[r[1]])

\* faulty variant: the head test is dropped, so any shot with a hit box can be critical
IsCriticalHeadShot_AnyBox(c, roll) ==
    /\ c.hitbox # "none"
    /\ ProbabilityEventOccurred(Clamp(c.critical_shot_probability, 0, 100), roll)

\* faulty variant: every hit on the head is critical, the probability is not consulted
IsCriticalHeadShot_NoRoll(c, roll) == c.hitbox # "none" /\ c.hitbox = "head"

\* if let Some(hitbox) = hitbox { hitbox.is_head && is_probability_event_occurred(clamped) }
IsCriticalHeadShot(c, roll) ==
    /\ c.hitbox # "none"
    /\ c.hitbox = "head"
    /\ ProbabilityEventOccurred(Clamp(c.critical_shot_probability, 0, 100), roll)

\* faulty variant: a drop of exactly the threshold already staggers
ShouldGrunt_AtThreshold(s) == s.last_health - s.health >= GRUNT_THRESHOLD /\ ~IsDead(s.health)

\* self.last_health - self.health > 20.0 && !self.is_dead()
ShouldGrunt(s) == s.last_health - s.health > GRUNT_THRESHOLD /\ ~IsDead(s.health)

\* Character::poll_command's own handling of the popped command
CharacterHandle(s, c) ==
    IF c.kind = "Damage" THEN [s EXCEPT !.health = Damage(s.health, c.amount)] ELSE s

\* the body of the first loop of poll_commands for one popped command
BotHandle(s0, c, roll, def, present, pos) ==
    LET s1 == CharacterHandle(s0, c)
        s2 == [s1 EXCEPT !.target = AcquireTarget(s1.target, c.who, present, pos)]
        crit == IsCriticalHeadShot(c, roll)
        s3 == IF crit
              THEN [s2 EXCEPT !.health = Damage(s2.health, c.amount * CRITICAL_MULTIPLIER),
                              !.head_exploded = TRUE]
              ELSE s2
        grunt == ShouldGrunt(s3)
        s4 == IF grunt
              THEN [s3 EXCEPT !.last_health = s3.health,
                              !.restoration_time = RESTORATION_TIME,
                              !.sounds = @ + (IF def.pain_sounds > 0 THEN 1 ELSE 0)]
              ELSE s3
    IN [s4 EXCEPT !.log = Append(@, [id |-> c.id, kind |-> c.kind, who |-> c.who,
                                      amount |-> c.amount, hitbox |-> c.hitbox,
                                      probability |-> c.critical_shot_probability,
                                      roll |-> roll, grunt |-> grunt,
                                      before |-> s0.health, after |-> s4.health,
                                      was |-> [last_health |-> s0.last_health,
                                               restoration_time |-> s0.restoration_time,
                                               target |-> s0.target,
                                               head_exploded |-> s0.head_exploded,
                                               sounds |-> s0.sounds],
                                      now |-> [last_health |-> s4.last_health,
                                               restoration_time |-> s4.restoration_time,
                                               target |-> s4.target,
                                               head_exploded |-> s4.head_exploded,
                                               sounds |-> s4.sounds]])]

\* while let Some(command) = self.character.poll_command(..)
RECURSIVE DrainCommands(_, _, _, _, _)
DrainCommands(s, rolls, def, present, pos) ==
    IF s.commands = <<>> THEN s
    ELSE DrainCommands(BotHandle([s EXCEPT !.commands = Tail(@)], Head(s.commands),
                                 Head(rolls), def, present, pos),
                       Tail(rolls), def, present, pos)

\* impact_handler.handle_impact for one popped BotCommand::HandleImpact
ImpactHandle(s, c) ==
    LET seen == [last_health |-> s.last_health, restoration_time |-> s.restoration_time,
                 target |-> s.target, head_exploded |-> s.head_exploded, sounds |-> s.sounds]
    IN [s EXCEPT !.log = Append(@, [id |-> c.id, kind |-> c.kind, who |-> HANDLE_NONE,
                                     amount |-> 0, hitbox |-> "none", probability |-> 0,
                                     roll |-> FALSE, grunt |-> FALSE,
                                     before |-> s.health, after |-> s.health,
                                     was |-> seen, now |-> seen])]

\* faulty variant: the bot's own queue is popped from the back
RECURSIVE DrainImpacts_Lifo(_)
DrainImpacts_Lifo(s) ==
    IF s.commands_queue = <<>> THEN s
    ELSE DrainImpacts_Lifo(ImpactHandle([s EXCEPT !.commands_queue = SubSeq(@, 1, Len(@) - 1)],
                                        s.commands_queue[Len(s.commands_queue)]))

\* while let Some(bot_command) = self.commands_queue.pop_front()
RECURSIVE DrainImpacts(_)
DrainImpacts(s) ==
    IF s.commands_queue = <<>> THEN s
    ELSE DrainImpacts(ImpactHandle([s EXCEPT !.commands_queue = Tail(@)],
                                   Head(s.commands_queue)))

\* faulty variant: the second loop is missing, the bot's own queue is left alone
PollCommands_FirstLoopOnly(s, rolls, def, present, pos) ==
    DrainCommands(s, rolls, def, present, pos)

\* faulty variant: the bot staggers after the loops, whether or not a command was handled
PollCommands_Stagger(s, rolls, def, present, pos) ==
    LET r == DrainImpacts(DrainCommands(s, rolls, def, present, pos))
    IN [r EXCEPT !.restoration_time = RESTORATION_TIME]

\* Bot::poll_commands on the bot state s: the first loop, then the second
PollCommands(s, rolls, def, present, pos) ==
    DrainImpacts(DrainCommands(s, rolls, def, present, pos))

(* ------------------- behaviour leaves (behavior/melee.rs) --------------- *)

\* faulty variant: the gate waits until the timer is strictly negative
CanMeleeAttack_Strict(tgt, restoration) ==
    IF tgt = NoTarget THEN "Failure"
    ELSE IF restoration < 0 THEN "Success" ELSE "Failure"

\* faulty variant: the gate does not look at the restoration timer
CanMeleeAttack_IgnoreTimer(tgt, restoration) ==
    IF tgt = NoTarget THEN "Failure" ELSE "Success"

\* CanMeleeAttack::tick
CanMeleeAttack(tgt, restoration) ==
    IF tgt = NoTarget THEN "Failure"
    ELSE IF restoration <= 0 THEN "Success" ELSE "Failure"

\* can_shoot
CanShoot(active, def) == active = "aim" /\ def.can_use_weapons

\* faulty variant: a clip that has ended is not started again
ShouldStartAttack_NeedsDisabled(leaf, clip) ==
    leaf.attack_timeout <= 0 /\ ~clip.enabled

\* faulty variant: the timer is not consulted
ShouldStartAttack_AnyTime(leaf, clip) == clip.ended \/ ~clip.enabled

\* the condition under which DoMeleeAttack::tick starts an attack
ShouldStartAttack(leaf, clip) ==
    leaf.attack_timeout <= 0 /\ (clip.ended \/ ~clip.enabled)

\* the condition under which DoMeleeAttack::tick re-arms its timer
ShouldResetTimeout(leaf, ended) == leaf.attack_timeout < 0 /\ ended

\* set_enabled(true).set_speed(speed).rewind()
Restart(clip, speed) == [clip EXCEPT !.enabled = TRUE, !.speed = speed, !.ended = FALSE]

\* faulty variant: the clip that was current is left running
StartAttack_NoFreeze(anims, current, chosen) ==
    [anims EXCEPT ![chosen] = Restart(@, ATTACK_SPEED)]

\* faulty variant: the chosen clip is started first and the current one frozen after it
StartAttack_Swapped(anims, current, chosen) ==
    LET playing == [anims EXCEPT ![chosen] = Restart(@, ATTACK_SPEED)]
    IN [playing EXCEPT ![current] = Restart(@, 0)]

\* the clips after an attack was started: the current one frozen, the chosen one playing
StartAttack(anims, current, chosen) ==
    LET frozen == [anims EXCEPT ![current] = Restart(@, 0)]
    IN [frozen EXCEPT ![chosen] = Restart(@, ATTACK_SPEED)]

\* faulty variant: a tick that re-arms the timer does not count it down
NextTimeout_SkipOnReset(leaf, ended, dt) ==
    IF ShouldResetTimeout(leaf, ended) THEN ATTACK_COOLDOWN ELSE leaf.attack_timeout - dt

\* the timer after the tick
NextTimeout(leaf, ended, dt) ==
    (IF ShouldResetTimeout(leaf, ended) THEN ATTACK_COOLDOWN ELSE leaf.attack_timeout) - dt

\* faulty variant: a hit signal counts whatever the combat machine is doing
HitRegisters_AnyState(signal, active, def) == signal = HIT_SIGNAL

\* the test a popped event must pass to count as a melee hit
HitRegisters(signal, active, def) ==
    signal = HIT_SIGNAL /\ active = "attack" /\ ~CanShoot(active, def)

\* the number of popped events that count as hits
RECURSIVE CountHits(_, _, _)
CountHits(events, active, def) ==
    IF events = <<>> THEN 0
    ELSE (IF HitRegisters(Head(events), active, def) THEN 1 ELSE 0)
         + CountHits(Tail(events), active, def)

\* faulty variant: the melee hit is sent as a certain critical head shot by the player
MeleeDamage_HeadShot(def, index) ==
    [kind |-> "Damage", who |-> 3, hitbox |-> "head",
     amount |-> AttackAmount(def, index), critical_shot_probability |-> 100]

\* CharacterCommand::Damage pushed for one registered hit
MeleeDamage(def, index) ==
    [kind |-> "Damage", who |-> HANDLE_NONE, hitbox |-> "none",
     amount |-> AttackAmount(def, index), critical_shot_probability |-> 0]

\* faulty variant: one command per tick, however many hits registered
MeleeCommands_Once(n, tgt, present, def, index) ==
    IF IsCharacter(tgt[1].handle, present) /\ n > 0
    THEN <<MeleeDamage(def, index)>>
    ELSE <<>>

\* the commands pushed to the target for n registered hits
MeleeCommands(n, tgt, present, def, index) ==
    IF IsCharacter(tgt[1].handle, present)
    THEN [k \in 1 .. n |-> MeleeDamage(def, index)]
    ELSE <<>>

\* the sounds played for n registered hits
MeleeSounds(n, def) == IF def.attack_sounds > 0 THEN n ELSE 0

\* faulty variant: the leaf always succeeds
MeleeStatus_Always(tgt) == "Success"

\* the status DoMeleeAttack::tick returns
MeleeStatus(tgt) == IF tgt # NoTarget THEN "Success" ELSE "Failure"

\* DoMeleeAttack::tick, with `chosen` the index the random generator draws
DoMeleeAttack(leaf, anims, c, tgt, active, def, present, chosen) ==
    LET current == leaf.attack_animation_index
        ended == anims[current].ended
        start == ShouldStartAttack(leaf, anims[current])
        index == IF start THEN chosen ELSE current
        anims1 == IF start THEN StartAttack(anims, current, chosen) ELSE anims
        events == IF tgt # NoTarget THEN anims1[current].events ELSE <<>>
        hits == CountHits(events, active, def)
        anims2 == IF tgt # NoTarget THEN [anims1 EXCEPT ![current].events = <<>>] ELSE anims1
    IN [leaf |-> [attack_timeout |-> NextTimeout(leaf, ended, c.dt),
                  attack_animation_index |-> index],
        anims |-> anims2,
        ctx |-> [c EXCEPT !.is_attacking = (start \/ @), !.attack_animation_index = index],
        status |-> MeleeStatus(tgt),
        started |-> start,
        reset |-> ShouldResetTimeout(leaf, ended),
        events |-> events,
        pushed |-> IF tgt # NoTarget THEN MeleeCommands(hits, tgt, present, def, index)
                   ELSE <<>>,
        sounds |-> MeleeSounds(hits, def)]

(* ------------------ animation machine (upper_body.rs) ------------------- *)

\* UpperBodyMachine::apply: the states the combat machine can be in after the tick
UpperBodyStates(state, dead, attack) ==
    IF dead THEN {"dying"}
    ELSE IF attack THEN {"attack"}
    ELSE IF state = "attack" THEN {"attack", "aim"}
    ELSE {state}

(* ------------------------------ Init ----------------------------------- *)

\* UpperBodyMachine::new: one clip per attack definition, created disabled
InitClip == [enabled |-> FALSE, speed |-> 10, ended |-> FALSE, events |-> <<>>]

\* the scene nodes of the shot trails
Nodes == 1 .. MaxTrails

\* LaserSight::new: no reaction
NoReaction == [kind |-> "None", time_remaining |-> 0]

\* no sight update has interpolated yet (t in percent, -1 for none), no time has passed
NoSightObs == [t |-> -1, elapsed |-> 0]

\* ShotTrailContainer::default and LaserSight::new
InitFx ==
    /\ container = <<>>
    /\ removed = [n \in Nodes |-> 0]
    /\ reaction_state = NoReaction
    /\ sight_obs = NoSightObs

\* the state after construction of a level holding the characters of `level`,
\* run by a host whose time step is one of `deltas`
InitLevel(level, tracked, kinds, deltas) ==
    /\ frame_dt \in deltas
    /\ alive = level
    /\ position = [a \in Actors |-> a]
    /\ kind \in {k \in [Bots -> kinds] : \A b \in Bots \ level : k[b] = "Mutant"}
    /\ definitions = [k \in Kinds |-> Definition(k)]
    /\ health = [a \in Actors |-> FULL_HEALTH]
    /\ last_health = [a \in Actors |-> FULL_HEALTH]
    /\ commands = [a \in Actors |-> <<>>]
    /\ target = tracked
    /\ restoration_time = [b \in Bots |-> 0]
    /\ head_exploded = [b \in Bots |-> FALSE]
    /\ commands_queue = [b \in Bots |-> <<>>]
    /\ behavior = [b \in Bots |-> [attack_timeout |-> 0, attack_animation_index |-> 0]]
    /\ animations = [b \in Bots |-> [i \in AttackIndices(DefOf(b)) |-> InitClip]]
    /\ active_state = [b \in Bots |-> "aim"]
    /\ ctx = NoCtx
    /\ pc = Idle
    /\ ticks = 0
    /\ next_id = 1
    /\ processed = <<>>
    /\ sent = [a \in Actors |-> {}]
    /\ done = [b \in Bots |-> {}]
    /\ since_end = [b \in Bots |-> -1]
    /\ since_stagger = [b \in Bots |-> -1]
    /\ last_splash = NoSplash
    /\ InitFx
    /\ obs = NoObs

\* a level with one bot and the player
Init == InitLevel({1} \cup Player, [b \in Bots |-> NoTarget], {"Mutant"}, Deltas)

fxVars == <<container, removed, reaction_state, sight_obs>>
worldVars == <<frame_dt, alive, position, kind, definitions, fxVars>>
characterVars == <<health, last_health>>
botVars == <<target, restoration_time, head_exploded>>
queueVars == <<commands, commands_queue, next_id, sent>>
leafVars == <<behavior, animations, since_end>>
ghostVars == <<ticks, processed, done, since_stagger, last_splash>>

(* --------------------------- Bot::on_update ----------------------------- *)

\* self.poll_commands(..): both queues are drained
OnUpdate_Poll(b, rolls) ==
    /\ pc = Idle
    /\ b \in alive
    /\ ticks < MaxTicks
    /\ LET s == PollCommands([health |-> health[b], last_health |-> last_health[b],
                              target |-> target[b],
                              restoration_time |-> restoration_time[b],
                              head_exploded |-> head_exploded[b],
                              commands |-> commands[b],
                              commands_queue |-> commands_queue[b],
                              sounds |-> 0, log |-> <<>>],
                             rolls, DefOf(b), alive, position)
       IN /\ health' = [health EXCEPT ![b] = s.health]
          /\ last_health' = [last_health EXCEPT ![b] = s.last_health]
          /\ target' = [target EXCEPT ![b] = s.target]
          /\ restoration_time' = [restoration_time EXCEPT ![b] = s.restoration_time]
          /\ head_exploded' = [head_exploded EXCEPT ![b] = s.head_exploded]
          /\ processed' = s.log
          /\ since_stagger' = [since_stagger EXCEPT ![b] =
                                   IF \E k \in 1 .. Len(s.log) : s.log[k].grunt THEN 0 ELSE @]
          /\ obs' = [NoObs EXCEPT !.grunts = s.sounds]
          /\ commands' = [commands EXCEPT ![b] = s.commands]
          /\ commands_queue' = [commands_queue EXCEPT ![b] = s.commands_queue]
    /\ pc' = [bot |-> b, at |-> "polled"]
    /\ UNCHANGED <<worldVars, leafVars, active_state, ctx, ticks, next_id, sent, done,
                   last_splash>>

\* let mut behavior_ctx = BehaviorContext { .. }
OnUpdate_Context(b) ==
    /\ At(b, "polled")
    /\ ctx' = [dt |-> frame_dt, restoration_time |-> restoration_time[b],
               attack_animation_index |-> 0, is_attacking |-> FALSE, built |-> TRUE]
    /\ pc' = [bot |-> b, at |-> "tree"]
    /\ UNCHANGED <<worldVars, characterVars, botVars, queueVars, leafVars, ghostVars,
                   active_state, obs>>

\* self.behavior.tree.tick: the gate leaf is ticked
Tick_CanMeleeAttack(b) ==
    /\ At(b, "tree")
    /\ obs' = [obs EXCEPT !.gate = CanMeleeAttack(target[b], ctx.restoration_time)]
    /\ pc' = [bot |-> b, at |-> "gated"]
    /\ UNCHANGED <<worldVars, characterVars, botVars, queueVars, leafVars, ghostVars,
                   active_state, ctx>>

\* the commands of `pushed`, numbered from `first` on
Numbered(pushed, first) ==
    [k \in 1 .. Len(pushed) |->
        [id |-> first + k - 1, kind |-> pushed[k].kind, who |-> pushed[k].who,
         amount |-> pushed[k].amount, hitbox |-> pushed[k].hitbox,
         critical_shot_probability |-> pushed[k].critical_shot_probability]]

\* faulty variant: the commands replace what the target's queue holds
PushAll_Overwrite(queues, tgt, pushed) ==
    IF pushed = <<>> THEN queues ELSE [queues EXCEPT ![tgt[1].handle] = pushed]

\* character.push_command for each command of `pushed`
PushAll(queues, tgt, pushed) ==
    IF pushed = <<>> THEN queues ELSE [queues EXCEPT ![tgt[1].handle] = @ \o pushed]

\* self.behavior.tree.tick: the action leaf is ticked
TickAction(b, chosen) ==
    /\ At(b, "gated")
    /\ behavior[b].attack_animation_index \in DOMAIN animations[b]
    /\ LET r == DoMeleeAttack(behavior[b], animations[b], ctx, target[b], active_state[b],
                              DefOf(b), alive, chosen)
       IN /\ behavior' = [behavior EXCEPT ![b] = r.leaf]
          /\ animations' = [animations EXCEPT ![b] = r.anims]
          /\ ctx' = r.ctx
          /\ commands' = PushAll(commands, target[b], Numbered(r.pushed, next_id))
          /\ next_id' = next_id + Len(r.pushed)
          /\ sent' = IF r.pushed = <<>> THEN sent
                     ELSE [sent EXCEPT ![target[b][1].handle] =
                              @ \cup (next_id .. (next_id + Len(r.pushed) - 1))]
          /\ since_end' = [since_end EXCEPT ![b] = IF r.started THEN -1 ELSE @]
          /\ obs' = [obs EXCEPT !.action = r.status, !.started = r.started,
                                !.reset = r.reset,
                                !.timeout_before = behavior[b].attack_timeout,
                                !.index_before = behavior[b].attack_animation_index,
                                !.since_end = since_end[b],
                                !.pushed = Numbered(r.pushed, next_id),
                                !.sounds = r.sounds, !.events = r.events,
                                !.ticked = TRUE]
    /\ pc' = [bot |-> b, at |-> "ticked"]
    /\ UNCHANGED <<worldVars, characterVars, botVars, commands_queue, ghostVars, active_state>>

\* sequence [CanMeleeAttack, DoMeleeAttack]: the action runs after a successful gate
Sequence_DoMeleeAttack(b, chosen) ==
    /\ obs.gate = "Success"
    /\ TickAction(b, chosen)

\* sequence [CanMeleeAttack, DoMeleeAttack]: a failed gate ends the sequence
Sequence_Fail(b) ==
    /\ At(b, "gated")
    /\ obs.gate = "Failure"
    /\ pc' = [bot |-> b, at |-> "ticked"]
    /\ UNCHANGED <<worldVars, characterVars, botVars, queueVars, leafVars, ghostVars,
                   active_state, ctx, obs>>

\* LowerBodyMachineInput { dead: self.is_dead(), .. } handed to lower_body_machine.apply
LowerBodyMachineInput(b) == [machine |-> "lower", dead |-> IsDead(health[b])]

\* faulty variant: the combat machine is never told of an attack
UpperBodyMachineInput_NoAttack(b) ==
    [machine |-> "upper", attack |-> FALSE, dead |-> IsDead(health[b]),
     attack_animation_index |-> ctx.attack_animation_index]

\* UpperBodyMachineInput { attack: is_attacking, dead: self.is_dead(),
\*                         attack_animation_index, .. } handed to upper_body_machine.apply
UpperBodyMachineInput(b) ==
    [machine |-> "upper", attack |-> ctx.is_attacking, dead |-> IsDead(health[b]),
     attack_animation_index |-> ctx.attack_animation_index]

\* the rest of on_update: timers, then the animation machines
OnUpdate_Apply(b, state) ==
    /\ At(b, "ticked")
    /\ state \in UpperBodyStates(active_state[b], UpperBodyMachineInput(b).dead,
                                UpperBodyMachineInput(b).attack)
    /\ restoration_time' = [restoration_time EXCEPT ![b] = @ - ctx.dt]
    /\ active_state' = [active_state EXCEPT ![b] = state]
    /\ since_end' = [since_end EXCEPT ![b] = IF @ >= 0 THEN @ + ctx.dt ELSE @]
    /\ since_stagger' = [since_stagger EXCEPT ![b] = IF @ >= 0 THEN @ + ctx.dt ELSE @]
    /\ ticks' = ticks + 1
    /\ done' = [done EXCEPT ![b] = @ \cup {processed[k].id : k \in 1 .. Len(processed)}]
    /\ processed' = <<>>
    /\ ctx' = NoCtx
    /\ obs' = [NoObs EXCEPT !.applies = <<LowerBodyMachineInput(b), UpperBodyMachineInput(b)>>]
    /\ pc' = [bot |-> b, at |-> "applied"]
    /\ UNCHANGED <<worldVars, characterVars, target, head_exploded, queueVars, behavior,
                   animations, last_splash>>

\* the clips the engine is advancing
Playing(clip) == clip.enabled /\ clip.speed > 0 /\ ~clip.ended

\* scene.animations update of the frame: a playing clip emits a timeline signal
\* or reaches its end
Engine_Animate(b, i, what) ==
    /\ At(b, "applied")
    /\ LET clip == animations[b][i]
       IN /\ what # "none" => Playing(clip)
          /\ what \in Signals => Len(clip.events) < MaxEvents
          /\ animations' = [animations EXCEPT ![b][i] =
                               IF what = "end" THEN [clip EXCEPT !.ended = TRUE]
                               ELSE IF what = "none" THEN clip
                               ELSE [clip EXCEPT !.events = Append(@, what)]]
          /\ since_end' = [since_end EXCEPT ![b] = IF what = "end" THEN 0 ELSE @]
    /\ obs' = NoObs
    /\ pc' = Idle
    /\ UNCHANGED <<worldVars, characterVars, botVars, queueVars, behavior, ghostVars,
                   active_state, ctx>>

(* ------------------------------ producers ------------------------------- *)

\* Character::push_command(CharacterCommand::Damage { .. }) by a projectile or explosion
PushDamage(b, m, cap) ==
    /\ pc = Idle
    /\ b \in alive
    /\ next_id <= cap
    /\ commands' = [commands EXCEPT ![b] =
                       Append(@, [id |-> next_id, kind |-> "Damage", who |-> m.who,
                                  amount |-> m.amount, hitbox |-> m.hitbox,
                                  critical_shot_probability |-> m.critical_shot_probability])]
    /\ next_id' = next_id + 1
    /\ sent' = [sent EXCEPT ![b] = @ \cup {next_id}]
    /\ UNCHANGED <<worldVars, characterVars, botVars, commands_queue, leafVars, ghostVars,
                   active_state, ctx, pc, obs>>

\* bot.commands_queue.push_back(BotCommand::HandleImpact { .. })
PushImpact(b, cap) ==
    /\ pc = Idle
    /\ b \in alive
    /\ next_id <= cap
    /\ commands_queue' = [commands_queue EXCEPT ![b] =
                             Append(@, [id |-> next_id, kind |-> "Impact"])]
    /\ next_id' = next_id + 1
    /\ sent' = [sent EXCEPT ![b] = @ \cup {next_id}]
    /\ UNCHANGED <<worldVars, characterVars, botVars, commands, leafVars, ghostVars,
                   active_state, ctx, pc, obs>>

\* Bot::set_target
SetTarget(b, h) ==
    /\ pc = Idle
    /\ b \in alive /\ h \in alive /\ h # b
    /\ target' = [target EXCEPT ![b] = SetTargetTo(h, position[h])]
    /\ UNCHANGED <<worldVars, characterVars, restoration_time, head_exploded, queueVars,
                   leafVars, ghostVars, active_state, ctx, pc, obs>>

\* Bot::on_actor_removed
OnActorRemoved(b, h) ==
    /\ pc = Idle
    /\ b \in alive
    /\ target[b] # NoTarget
    /\ target' = [target EXCEPT ![b] = IF @[1].handle = h THEN NoTarget ELSE @]
    /\ UNCHANGED <<worldVars, characterVars, restoration_time, head_exploded, queueVars,
                   leafVars, ghostVars, active_state, ctx, pc, obs>>

\* ScriptTrait::on_deinit: the actor leaves the level
OnDeinit(a) ==
    /\ pc = Idle
    /\ a \in alive
    /\ alive' = alive \ {a}
    /\ UNCHANGED <<frame_dt, position, kind, definitions, fxVars, characterVars, botVars,
                   queueVars, leafVars, ghostVars, active_state, ctx, pc, obs>>

Next ==
    \/ \E b \in Bots : \E rolls \in [1 .. Len(commands[b]) -> BOOLEAN] : OnUpdate_Poll(b, rolls)
    \/ \E b \in Bots : OnUpdate_Context(b)
    \/ \E b \in Bots : Tick_CanMeleeAttack(b)
    \/ \E b \in Bots : \E chosen \in AttackIndices(DefOf(b)) : Sequence_DoMeleeAttack(b, chosen)
    \/ \E b \in Bots : Sequence_Fail(b)
    \/ \E b \in Bots : \E state \in {"aim", "attack", "dying"} : OnUpdate_Apply(b, state)
    \/ \E b \in Bots : \E i \in AttackIndices(DefOf(b)), what \in Signals \cup {"end", "none"} :
          Engine_Animate(b, i, what)
    \/ \E b \in Bots, m \in ShotMenu : PushDamage(b, m, MaxShots)
    \/ \E b \in Bots, h \in Actors : SetTarget(b, h)
    \/ \E b \in Bots, h \in Actors : OnActorRemoved(b, h)
    \/ \E a \in Actors : OnDeinit(a)

\* The whole bot: ticks, the animation engine, target changes, removals, shots
Spec == Init /\ [][Next]_vars

\* DoMeleeAttack::tick on its own: the leaf ticked in every context the bot builds,
\* whatever the gate returned
Leaf_DoMeleeAttack(b, chosen) == TickAction(b, chosen)

\* a level with one bot of either kind and the player
InitLeaf == InitLevel({1} \cup Player, [b \in Bots |-> NoTarget], Kinds, Deltas)

NextLeaf ==
    \/ \E b \in Bots : \E rolls \in [1 .. Len(commands[b]) -> BOOLEAN] : OnUpdate_Poll(b, rolls)
    \/ \E b \in Bots : OnUpdate_Context(b)
    \/ \E b \in Bots : Tick_CanMeleeAttack(b)
    \/ \E b \in Bots : \E chosen \in AttackIndices(DefOf(b)) : Leaf_DoMeleeAttack(b, chosen)
    \/ \E b \in Bots : \E state \in {"aim", "attack", "dying"} : OnUpdate_Apply(b, state)
    \/ \E b \in Bots : \E i \in AttackIndices(DefOf(b)), what \in Signals \cup {"end", "none"} :
          Engine_Animate(b, i, what)
    \/ \E b \in Bots, m \in ShotMenu : PushDamage(b, m, MaxShots)
    \/ \E b \in Bots, h \in Actors : SetTarget(b, h)

\* The melee leaves of one bot of either kind, each ticked in every tick
SpecLeaf == InitLeaf /\ [][NextLeaf]_vars

\* a level with two bots, each tracking the other (Bot::set_target)
InitDuel == InitLevel(Bots, [b \in Bots |-> SetTargetTo(3 - b, 3 - b)], {"Mutant"}, Deltas)

NextDuel ==
    \/ \E b \in Bots : \E rolls \in [1 .. Len(commands[b]) -> BOOLEAN] : OnUpdate_Poll(b, rolls)
    \/ \E b \in Bots : OnUpdate_Context(b)
    \/ \E b \in Bots : Tick_CanMeleeAttack(b)
    \/ \E b \in Bots : \E chosen \in AttackIndices(DefOf(b)) : Sequence_DoMeleeAttack(b, chosen)
    \/ \E b \in Bots : Sequence_Fail(b)
    \/ \E b \in Bots : \E state \in {"aim", "attack", "dying"} : OnUpdate_Apply(b, state)
    \/ \E b \in Bots : \E i \in AttackIndices(DefOf(b)), what \in {HIT_SIGNAL, "end", "none"} :
          Engine_Animate(b, i, what)
    \/ \E b \in Bots : PushImpact(b, MaxShots)

\* Two bots fighting each other while impacts arrive
SpecDuel == InitDuel /\ [][NextDuel]_vars

\* a frame in which no clip emits a signal or ends
Engine_Quiet(b) == Engine_Animate(b, 0, "none")

\* a level with two bots, stepped at the shorter time step
InitQueue == InitLevel(Bots, [b \in Bots |-> NoTarget], {"Mutant"}, {1})

NextQueue ==
    \/ \E b \in Bots : \E rolls \in [1 .. Len(commands[b]) -> BOOLEAN] : OnUpdate_Poll(b, rolls)
    \/ \E b \in Bots : OnUpdate_Context(b)
    \/ \E b \in Bots : Tick_CanMeleeAttack(b)
    \/ \E b \in Bots : \E chosen \in AttackIndices(DefOf(b)) : Sequence_DoMeleeAttack(b, chosen)
    \/ \E b \in Bots : Sequence_Fail(b)
    \/ \E b \in Bots : \E state \in {"aim", "attack", "dying"} : OnUpdate_Apply(b, state)
    \/ \E b \in Bots : Engine_Quiet(b)
    \/ \E b \in Bots, m \in DamageMenu : PushDamage(b, m, MaxCommands)
    \/ \E b \in Bots : PushImpact(b, MaxCommands)

\* The command pipeline: producers of both kinds of command and the bot's ticks
SpecQueue == InitQueue /\ [][NextQueue]_vars

\* a character moves: character.position(&scene.graph) changes
Move(a, p) ==
    /\ pc = Idle
    /\ a \in alive
    /\ p # position[a]
    /\ position' = [position EXCEPT ![a] = p]
    /\ UNCHANGED <<frame_dt, alive, kind, definitions, fxVars, characterVars, botVars,
                   queueVars, leafVars, ghostVars, active_state, ctx, pc, obs>>

\* a level with one bot and the player, stepped at the shorter time step
InitDamage == InitLevel({1} \cup Player, [b \in Bots |-> NoTarget], {"Mutant"}, {1})

NextDamage ==
    \/ \E b \in Bots : \E rolls \in [1 .. Len(commands[b]) -> BOOLEAN] : OnUpdate_Poll(b, rolls)
    \/ \E b \in Bots : OnUpdate_Context(b)
    \/ \E b \in Bots : Tick_CanMeleeAttack(b)
    \/ \E b \in Bots : \E chosen \in AttackIndices(DefOf(b)) : Sequence_DoMeleeAttack(b, chosen)
    \/ \E b \in Bots : Sequence_Fail(b)
    \/ \E b \in Bots : \E state \in {"aim", "attack", "dying"} : OnUpdate_Apply(b, state)
    \/ \E b \in Bots : Engine_Quiet(b)
    \/ \E b \in Bots, m \in HitMenu : PushDamage(b, m, MaxCommands)
    \/ \E a \in Player : \E p \in Places(a) : Move(a, p)
    \/ \E a \in Player : OnDeinit(a)

\* The damage rules: hits of every sort arrive while the shooter moves and may leave
SpecDamage == InitDamage /\ [][NextDamage]_vars

NextTarget ==
    \/ \E b \in Bots : \E rolls \in [1 .. Len(commands[b]) -> BOOLEAN] : OnUpdate_Poll(b, rolls)
    \/ \E b \in Bots : OnUpdate_Context(b)
    \/ \E b \in Bots : Tick_CanMeleeAttack(b)
    \/ \E b \in Bots : \E chosen \in AttackIndices(DefOf(b)) : Sequence_DoMeleeAttack(b, chosen)
    \/ \E b \in Bots : Sequence_Fail(b)
    \/ \E b \in Bots : \E state \in {"aim", "attack", "dying"} : OnUpdate_Apply(b, state)
    \/ \E b \in Bots : Engine_Quiet(b)
    \/ \E b \in Bots, m \in HitMenu : PushDamage(b, m, MaxShots)
    \/ \E a \in Player : \E p \in Places(a) : Move(a, p)
    \/ \E a \in Player : OnDeinit(a)
    \/ \E b \in Bots, h \in Actors : SetTarget(b, h)
    \/ \E b \in Bots, h \in Actors : OnActorRemoved(b, h)

\* Target tracking: explicit assignment, acquisition by damage, removal notices and
\* departures, while the tracked character moves
SpecTarget == InitDamage /\ [][NextTarget]_vars

\* Contents data/configs/bots.ron can have: an entry for every kind; no entry for the
\* zombie; a zombie entry whose attack_animations list is empty
Tables ==
    { [k \in Kinds |-> Definition(k)],
      [k \in {"Mutant"} |-> Definition(k)],
      [k \in Kinds |-> IF k = "Zombie" THEN [Definition(k) EXCEPT !.attack_damage = <<>>]
                       ELSE Definition(k)] }

\* ScriptTrait::on_init of a bot the engine adds to the running scene: get_definition
\* unwraps the table's entry, the machines and the leaf are built, the bot joins Level::actors
OnInit(b) ==
    /\ pc = Idle
    /\ b \in Bots \ alive
    /\ IF kind[b] \in DOMAIN definitions
       THEN /\ alive' = alive \cup {b}
            /\ animations' = [animations EXCEPT ![b] =
                                 [i \in AttackIndices(DefOf(b)) |-> InitClip]]
            /\ behavior' = [behavior EXCEPT ![b] =
                               [attack_timeout |-> 0, attack_animation_index |-> 0]]
            /\ pc' = pc
       ELSE /\ pc' = [bot |-> b, at |-> "panicked"]
            /\ UNCHANGED <<alive, animations, behavior>>
    /\ UNCHANGED <<frame_dt, position, kind, definitions, fxVars, characterVars, botVars,
                   queueVars, since_end, ghostVars, active_state, ctx, obs>>

\* DoMeleeAttack::tick: upper_body_machine.attack_animations[self.attack_animation_index]
\* is out of bounds and the tick panics
TickAction_Panic(b) ==
    /\ At(b, "gated")
    /\ behavior[b].attack_animation_index \notin DOMAIN animations[b]
    /\ pc' = [bot |-> b, at |-> "panicked"]
    /\ UNCHANGED <<worldVars, characterVars, botVars, queueVars, leafVars, ghostVars,
                   active_state, ctx, obs>>

\* sequence [CanMeleeAttack, DoMeleeAttack]: the action is reached after a successful gate
Sequence_Panic(b) ==
    /\ obs.gate = "Success"
    /\ TickAction_Panic(b)

\* a frame in which the engine advances none of the bot's clips
Engine_Idle(b) ==
    /\ At(b, "applied")
    /\ obs' = NoObs
    /\ pc' = Idle
    /\ UNCHANGED <<worldVars, characterVars, botVars, queueVars, leafVars, ghostVars,
                   active_state, ctx>>

\* a running level with one bot and the player; a second bot is about to be added
InitSpawn ==
    /\ frame_dt = 1
    /\ alive = {1} \cup Player
    /\ position = [a \in Actors |-> a]
    /\ definitions \in Tables
    /\ kind \in {k \in [Bots -> Kinds] : k[1] \in DOMAIN definitions}
    /\ health = [a \in Actors |-> FULL_HEALTH]
    /\ last_health = [a \in Actors |-> FULL_HEALTH]
    /\ commands = [a \in Actors |-> <<>>]
    /\ target = [b \in Bots |-> NoTarget]
    /\ restoration_time = [b \in Bots |-> 0]
    /\ head_exploded = [b \in Bots |-> FALSE]
    /\ commands_queue = [b \in Bots |-> <<>>]
    /\ behavior = [b \in Bots |-> [attack_timeout |-> 0, attack_animation_index |-> 0]]
    /\ animations = [b \in Bots |-> IF b \in alive
                                    THEN [i \in AttackIndices(DefOf(b)) |-> InitClip]
                                    ELSE [i \in {} |-> InitClip]]
    /\ active_state = [b \in Bots |-> "aim"]
    /\ ctx = NoCtx
    /\ pc = Idle
    /\ ticks = 0
    /\ next_id = 1
    /\ processed = <<>>
    /\ sent = [a \in Actors |-> {}]
    /\ done = [b \in Bots |-> {}]
    /\ since_end = [b \in Bots |-> -1]
    /\ since_stagger = [b \in Bots |-> -1]
    /\ last_splash = NoSplash
    /\ InitFx
    /\ obs = NoObs

NextSpawn ==
    \/ \E b \in Bots : \E rolls \in [1 .. Len(commands[b]) -> BOOLEAN] : OnUpdate_Poll(b, rolls)
    \/ \E b \in Bots : OnUpdate_Context(b)
    \/ \E b \in Bots : Tick_CanMeleeAttack(b)
    \/ \E b \in Bots \cap alive : \E chosen \in AttackIndices(DefOf(b)) :
          Sequence_DoMeleeAttack(b, chosen)
    \/ \E b \in Bots : Sequence_Panic(b)
    \/ \E b \in Bots : Sequence_Fail(b)
    \/ \E b \in Bots : \E state \in {"aim", "attack", "dying"} : OnUpdate_Apply(b, state)
    \/ \E b \in Bots : Engine_Idle(b)
    \/ \E b \in Bots, h \in Actors : SetTarget(b, h)
    \/ \E b \in Bots : OnInit(b)

\* Bots are added to a running level whose table of definitions may be incomplete or wrong
SpecSpawn == InitSpawn /\ [][NextSpawn]_vars

\* The explosions of a run: one by the player that does not stagger, one without a source
SplashMenu ==
    { [who |-> 3, amount |-> 10, critical_shot_probability |-> 50],
      [who |-> HANDLE_NONE, amount |-> 25, critical_shot_probability |-> 0] }

\* Centres and radii of the explosions
Centers == {2, 12}
Radii == {0, 1}

\* position.metric_distance(&center)
Distance(p, q) == IF p >= q THEN p - q ELSE q - p

\* faulty variant: an actor exactly at the radius is spared
SplashTargets_Strict(present, pos, center, radius) ==
    {a \in Actors : a \in present /\ Distance(pos[a], center) < radius}

\* the actors of Level::actors the loop of apply_splash_damage re-casts the damage to
SplashTargets(present, pos, center, radius) ==
    {a \in Actors : a \in present /\ Distance(pos[a], center) <= radius}

\* the place of actor a in the iteration over the actors of `hit`
Rank(a, hit) == Cardinality({x \in hit : x < a})

\* Level::apply_splash_damage
ApplySplashDamage(m, radius, center, cap) ==
    /\ pc = Idle
    /\ last_splash.n < cap
    /\ LET hit == SplashTargets(alive, position, center, radius)
       IN /\ commands' = [a \in Actors |->
                             IF a \in hit
                             THEN Append(commands[a],
                                         [id |-> next_id + Rank(a, hit), kind |-> "Damage",
                                          who |-> m.who, amount |-> m.amount,
                                          hitbox |-> "none",
                                          critical_shot_probability |->
                                              m.critical_shot_probability])
                             ELSE commands[a]]
          /\ next_id' = next_id + Cardinality(hit)
          /\ sent' = [a \in Actors |-> IF a \in hit THEN sent[a] \cup {next_id + Rank(a, hit)}
                                       ELSE sent[a]]
    /\ last_splash' = [n |-> last_splash.n + 1, center |-> center, radius |-> radius,
                       who |-> m.who, amount |-> m.amount,
                       critical_shot_probability |-> m.critical_shot_probability]
    /\ UNCHANGED <<worldVars, characterVars, botVars, commands_queue, leafVars, ticks,
                   processed, done, since_stagger, active_state, ctx, pc, obs>>

\* a level with two bots and the player, stepped at the shorter time step
InitSplash == InitLevel(Actors, [b \in Bots |-> NoTarget], {"Mutant"}, {1})

NextSplash ==
    \/ \E b \in Bots : \E rolls \in [1 .. Len(commands[b]) -> BOOLEAN] : OnUpdate_Poll(b, rolls)
    \/ \E b \in Bots : OnUpdate_Context(b)
    \/ \E b \in Bots : Tick_CanMeleeAttack(b)
    \/ \E b \in Bots : \E chosen \in AttackIndices(DefOf(b)) : Sequence_DoMeleeAttack(b, chosen)
    \/ \E b \in Bots : Sequence_Fail(b)
    \/ \E b \in Bots : \E state \in {"aim", "attack", "dying"} : OnUpdate_Apply(b, state)
    \/ \E b \in Bots : Engine_Quiet(b)
    \/ \E m \in SplashMenu, radius \in Radii, center \in Centers :
          ApplySplashDamage(m, radius, center, MaxShots)
    \/ \E a \in Player : \E p \in Places(a) : Move(a, p)

\* Explosions go off in a level whose bots are ticked and whose player moves
SpecSplash == InitSplash /\ [][NextSplash]_vars

\* a timer that has run further below zero than MaxDebt is kept at -MaxDebt: the code
\* only ever compares the timers with zero
Sat(t) == IF t < 0 - MaxDebt THEN 0 - MaxDebt ELSE t

\* a frame of a run without end: the engine's animation update as in Engine_Animate,
\* with the timers kept within MaxDebt, the time since the clip's end kept within the
\* longest wait the timers can impose, and the ticks no longer counted
Frame(b, i, what) ==
    /\ At(b, "applied")
    /\ LET clip == animations[b][i]
       IN /\ what # "none" => Playing(clip)
          /\ what \in Signals => Len(clip.events) < MaxEvents
          /\ animations' = [animations EXCEPT ![b][i] =
                               IF what = "end" THEN [clip EXCEPT !.ended = TRUE]
                               ELSE IF what = "none" THEN clip
                               ELSE [clip EXCEPT !.events = Append(@, what)]]
          /\ since_end' = [since_end EXCEPT ![b] =
                               IF what = "end" THEN 0
                               ELSE IF @ > RESTORATION_TIME + MaxDebt
                                    THEN RESTORATION_TIME + MaxDebt ELSE @]
    /\ restoration_time' = [restoration_time EXCEPT ![b] = Sat(@)]
    /\ behavior' = [behavior EXCEPT ![b].attack_timeout = Sat(@)]
    /\ ticks' = 0
    /\ obs' = NoObs
    /\ pc' = Idle
    /\ UNCHANGED <<worldVars, characterVars, target, head_exploded, queueVars, processed, done,
                   since_stagger, last_splash, active_state, ctx>>

\* the frame in which the playing clip reaches its end
Frame_End(b) == \E i \in AttackIndices(DefOf(b)) : Frame(b, i, "end")

\* a bot of either kind that tracks the player and has either just staggered or not
InitLive ==
    /\ frame_dt \in Deltas
    /\ alive = {1} \cup Player
    /\ position = [a \in Actors |-> a]
    /\ definitions = [k \in Kinds |-> Definition(k)]
    /\ kind \in {k \in [Bots -> Kinds] : k[2] = "Mutant"}
    /\ health = [a \in Actors |-> FULL_HEALTH]
    /\ last_health = [a \in Actors |-> FULL_HEALTH]
    /\ commands = [a \in Actors |-> <<>>]
    /\ target = [b \in Bots |-> IF b = 1 THEN SetTargetTo(3, 3) ELSE NoTarget]
    /\ restoration_time \in {[b \in Bots |-> IF b = 1 THEN t ELSE 0] : t \in {0, RESTORATION_TIME}}
    /\ head_exploded = [b \in Bots |-> FALSE]
    /\ commands_queue = [b \in Bots |-> <<>>]
    /\ behavior = [b \in Bots |-> [attack_timeout |-> 0, attack_animation_index |-> 0]]
    /\ animations = [b \in Bots |-> [i \in AttackIndices(DefOf(b)) |-> InitClip]]
    /\ active_state = [b \in Bots |-> "aim"]
    /\ ctx = NoCtx
    /\ pc = Idle
    /\ ticks = 0
    /\ next_id = 1
    /\ processed = <<>>
    /\ sent = [a \in Actors |-> {}]
    /\ done = [b \in Bots |-> {}]
    /\ since_end = [b \in Bots |-> -1]
    /\ since_stagger = [b \in Bots |-> -1]
    /\ last_splash = NoSplash
    /\ InitFx
    /\ obs = NoObs

NextLive ==
    \/ \E b \in Bots : \E rolls \in [1 .. Len(commands[b]) -> BOOLEAN] : OnUpdate_Poll(b, rolls)
    \/ \E b \in Bots : OnUpdate_Context(b)
    \/ \E b \in Bots : Tick_CanMeleeAttack(b)
    \/ \E b \in Bots : \E chosen \in AttackIndices(DefOf(b)) : Sequence_DoMeleeAttack(b, chosen)
    \/ \E b \in Bots : Sequence_Fail(b)
    \/ \E b \in Bots : \E state \in {"aim", "attack", "dying"} : OnUpdate_Apply(b, state)
    \/ \E b \in Bots : \E i \in AttackIndices(DefOf(b)), what \in {"other", "none"} :
          Frame(b, i, what)
    \/ \E b \in Bots : Frame_End(b)

\* A bot that keeps its target and is hurt no more, ticked for ever by a host whose every
\* frame is followed by another and whose playing clips reach their end
SpecLive ==
    /\ InitLive
    /\ [][NextLive]_vars
    /\ WF_vars(NextLive)
    /\ SF_vars(\E b \in Bots : Frame_End(b))

(* ------------------------------ shot trails ----------------------------- *)

\* the max_lifetime a shot gives its trail, in tenths of a second
Lifetimes == {2, 4}

\* the variables of the actors
actorVars == <<frame_dt, alive, position, kind, definitions, characterVars, botVars, queueVars,
               leafVars, ghostVars, active_state, ctx, pc, obs>>

\* ShotTrail::new
ShotTrail_new(node, max_lifetime) ==
    [node |-> node, lifetime |-> 0, max_lifetime |-> max_lifetime]

\* f32::min
Min(x, y) == IF x < y THEN x ELSE y

\* the trail after the first statement of the retain_mut closure
Aged(trail, dt) == [trail EXCEPT !.lifetime = Min(trail.lifetime + dt, trail.max_lifetime)]

\* the closure's `if`: the trail's node is removed from the scene
Expired(trail) == trail.lifetime >= trail.max_lifetime

\* faulty variant: a trail that has just reached max_lifetime is kept
Retained_Inclusive(trail) == trail.lifetime <= trail.max_lifetime

\* the closure's result: the trail stays in the container
Retained(trail) == trail.lifetime < trail.max_lifetime

\* the node of a trail the scene has just built: one not handed out before
Fresh(n) ==
    /\ removed[n] = 0
    /\ \A i \in DOMAIN container : container[i].node # n

\* ShotTrailContainer::add, with the trail of a new shot
ShotTrailContainer_add(node, max_lifetime) ==
    /\ pc = Idle
    /\ Fresh(node)
    /\ \A m \in Nodes : m < node => ~Fresh(m)
    /\ container' = Append(container, ShotTrail_new(node, max_lifetime))
    /\ UNCHANGED <<actorVars, removed, reaction_state, sight_obs>>

\* ShotTrailContainer::update
ShotTrailContainer_update(dt) ==
    /\ pc = Idle
    /\ container # <<>>
    /\ LET aged == [i \in DOMAIN container |-> Aged(container[i], dt)]
       IN /\ removed' = [n \in Nodes |->
                            removed[n] + Cardinality({i \in DOMAIN aged :
                                                         aged[i].node = n /\ Expired(aged[i])})]
          /\ container' = SelectSeq(aged, Retained)
    /\ UNCHANGED <<actorVars, reaction_state, sight_obs>>

\* a level with the player, who shoots
InitTrail == InitLevel(Player, [b \in Bots |-> NoTarget], {"Mutant"}, Deltas)

NextTrail ==
    \/ \E node \in Nodes, max_lifetime \in Lifetimes : ShotTrailContainer_add(node, max_lifetime)
    \/ ShotTrailContainer_update(frame_dt)

SpecTrail == InitTrail /\ [][NextTrail]_vars

(* ------------------------------ laser sight ----------------------------- *)

\* the durations of the reactions, in hundredths of a second
HIT_DETECTED_TIME == 40

ENEMY_KILLED_TIME == 55

SightReaction == {"HitDetected", "EnemyKilled"}

\* the time_remaining set_reaction gives the reaction
ReactionTime(reaction) ==
    IF reaction = "HitDetected" THEN HIT_DETECTED_TIME ELSE ENEMY_KILLED_TIME

\* the divisor of `t` in the branch of LaserSight::update that handles the reaction
Divisor(reaction) ==
    IF reaction = "HitDetected" THEN HIT_DETECTED_TIME ELSE HIT_DETECTED_TIME

\* `t` of LaserSight::update, in percent
InterpolationParameter(reaction, time_remaining) ==
    (time_remaining * 100) \div Divisor(reaction)

\* the host's time step in hundredths of a second
SightDt == 10 * frame_dt

\* LaserSight::set_reaction
LaserSight_set_reaction(reaction) ==
    /\ pc = Idle
    /\ reaction_state' = [kind |-> reaction, time_remaining |-> ReactionTime(reaction)]
    /\ sight_obs' = NoSightObs
    /\ UNCHANGED <<actorVars, container, removed>>

\* LaserSight::update: the reaction part
LaserSight_update(dt) ==
    /\ pc = Idle
    /\ IF reaction_state.kind = "None"
       THEN UNCHANGED <<reaction_state, sight_obs>>
       ELSE LET time_remaining == reaction_state.time_remaining - dt
            IN IF time_remaining <= 0
               THEN /\ reaction_state' = NoReaction
                    /\ sight_obs' = [t |-> -1, elapsed |-> sight_obs.elapsed + dt]
               ELSE /\ reaction_state' = [reaction_state EXCEPT
                                             !.time_remaining = time_remaining]
                    /\ sight_obs' =
                          [t |-> InterpolationParameter(reaction_state.kind, time_remaining),
                           elapsed |-> sight_obs.elapsed + dt]
    /\ UNCHANGED <<actorVars, container, removed>>

\* a level with the player, whose weapon carries the sight and leaves shot trails
NextSight ==
    \/ \E reaction \in SightReaction : LaserSight_set_reaction(reaction)
    \/ LaserSight_update(SightDt)
    \/ \E node \in Nodes, max_lifetime \in Lifetimes : ShotTrailContainer_add(node, max_lifetime)
    \/ ShotTrailContainer_update(frame_dt)

SpecSight == InitTrail /\ [][NextSight]_vars

(* ------------------------------ properties ------------------------------ *)

\* the bot whose tick is in progress
Running == pc.bot

\* the numbers of the commands of a queue or of a log
Ids(q) == {q[k].id : k \in 1 .. Len(q)}

\* the step of bot b's tick in which the action leaf is ticked
LeafStep(b) == At(b, "gated") /\ obs'.ticked

\* the clip the leaf has selected
CurrentClip(b) == animations[b][behavior[b].attack_animation_index]

\* C1: in every tick the melee gate leaf returns Success exactly when the bot has a target
\* and the restoration timer of the tick's context is <= 0, and Failure in every other
\* case; ticking it changes neither the context nor any state of the bot.
C1_GateIffTargetAndRestored ==
    [][\A b \in Bots :
          (At(b, "tree") /\ pc'.at = "gated") =>
              /\ obs'.gate = (IF target[b] # NoTarget /\ ctx.restoration_time <= 0
                              THEN "Success" ELSE "Failure")
              /\ ctx' = ctx
              /\ UNCHANGED <<characterVars, botVars, queueVars, leafVars, active_state>>]_vars

\* the gate succeeded with the timer exactly at its boundary
C1_Witness ==
    /\ pc.at = "gated"
    /\ obs.gate = "Success"
    /\ ctx.restoration_time = 0
    /\ target[Running] # NoTarget

\* C2: a tick of the action leaf that begins with attack_timeout > 0 starts no attack: the
\* attack index is not re-rolled, no clip is rewound, enabled or given another speed, and
\* is_attacking is not set.
C2_NoStartWhileTimerPositive ==
    [][\A b \in Bots :
          (LeafStep(b) /\ behavior[b].attack_timeout > 0) =>
              /\ behavior'[b].attack_animation_index = behavior[b].attack_animation_index
              /\ \A i \in AttackIndices(DefOf(b)) :
                    /\ animations'[b][i].enabled = animations[b][i].enabled
                    /\ animations'[b][i].speed = animations[b][i].speed
                    /\ animations'[b][i].ended = animations[b][i].ended
              /\ ctx'.is_attacking = ctx.is_attacking
              /\ ~ctx'.is_attacking]_vars

\* the leaf was ticked with a positive timer, a target and a finished clip, and started nothing
C2_Witness ==
    /\ pc.at = "ticked"
    /\ obs.ticked
    /\ obs.timeout_before > 0
    /\ target[Running] # NoTarget
    /\ CurrentClip(Running).ended
    /\ ~ctx.is_attacking

\* the leaf is about to be ticked with its timer run out and its clip finished or disabled
ReadyToStart(b) ==
    /\ At(b, "gated")
    /\ behavior[b].attack_timeout <= 0
    /\ CurrentClip(b).ended \/ ~CurrentClip(b).enabled

\* C3: a tick of the action leaf that begins with its timer <= 0 and its selected clip
\* ended or disabled selects an index within the attack list (every index of the list can
\* be the one selected), leaves that clip rewound, enabled and playing at speed 1.3, and
\* sets is_attacking for the tick.
C3_StartsAttack ==
    /\ [](\A b \in Bots : ReadyToStart(b) =>
             \A i \in AttackIndices(DefOf(b)) :
                ENABLED (Leaf_DoMeleeAttack(b, i) /\ behavior'[b].attack_animation_index = i))
    /\ [][\A b \in Bots :
             (LeafStep(b) /\ ReadyToStart(b)) =>
                 LET index == behavior'[b].attack_animation_index
                 IN /\ index \in AttackIndices(DefOf(b))
                    /\ ctx'.attack_animation_index = index
                    /\ animations'[b][index].enabled
                    /\ animations'[b][index].speed = ATTACK_SPEED
                    /\ ~animations'[b][index].ended
                    /\ ctx'.is_attacking]_vars

\* a finished attack was followed by a new one for which the same, last index was drawn again
C3_Witness ==
    /\ pc.at = "ticked"
    /\ obs.ticked
    /\ obs.started
    /\ obs.since_end >= 0
    /\ obs.index_before = 1
    /\ behavior[Running].attack_animation_index = 1
    /\ ctx.is_attacking

\* C4: once an attack clip has finished, the leaf starts the next attack no sooner than
\* 0.3 of accumulated tick delta after the clip's end (the delta of the starting tick
\* counted in).
C4_MinimumGap ==
    \A b \in Bots :
        (At(b, "ticked") /\ obs.ticked /\ obs.started /\ obs.since_end >= 0) =>
            obs.since_end + frame_dt >= ATTACK_COOLDOWN

\* C5: the action leaf returns Success in every tick in which the bot has a target,
\* whatever its timer and its clip, and Failure in every tick in which it has none.
C5_StatusFollowsTarget ==
    \A b \in Bots :
        (At(b, "ticked") /\ obs.ticked) =>
            obs.action = (IF target[b] = NoTarget THEN "Failure" ELSE "Success")

\* the leaf succeeded in the middle of its cooldown, starting nothing
C5_Witness ==
    /\ pc.at = "ticked"
    /\ obs.ticked
    /\ obs.action = "Success"
    /\ obs.timeout_before > 0
    /\ ~obs.started

\* the events that count as melee hits when drained by a bot in state `active`
HitsAmong(events, active, def) ==
    Cardinality({k \in 1 .. Len(events) :
                    /\ events[k] = HIT_SIGNAL
                    /\ active = "attack"
                    /\ ~(active = "aim" /\ def.can_use_weapons)})

\* queue `after` is queue `old` followed by n melee Damage commands of the given amount
AppendsMeleeDamage(old, after, n, amount) ==
    /\ Len(after) = Len(old) + n
    /\ SubSeq(after, 1, Len(old)) = old
    /\ \A k \in (Len(old) + 1) .. Len(after) :
          /\ after[k].kind = "Damage"
          /\ after[k].amount = amount
          /\ after[k].critical_shot_probability = 0
          /\ after[k].hitbox = "none"

\* the configured damage of the attack the leaf has selected after the step
SelectedAmount(b) == DefOf(b).attack_damage[behavior'[b].attack_animation_index + 1]

Handled(b) == done[b] \cup (IF pc.bot = b THEN Ids(processed) ELSE {})

\* C7: in every tick both command queues are drained completely at one point, before the
\* context is built and the tree is ticked: when the tree starts, nothing enqueued before
\* the tick is pending; nothing is processed during or after the tree; and what the tree
\* enqueues is still pending, unprocessed, when the tree is done.
C7_DrainedBeforeTree ==
    /\ [](\A b \in Bots :
             /\ At(b, "polled") => ctx = NoCtx /\ obs.gate = "none" /\ ~obs.ticked
             /\ (pc.bot = b /\ pc.at \in {"polled", "tree", "gated"}) =>
                   /\ commands[b] = <<>>
                   /\ commands_queue[b] = <<>>
                   /\ sent[b] = Handled(b)
             /\ (At(b, "ticked") /\ obs.pushed # <<>>) =>
                   /\ Ids(obs.pushed) \cap UNION {Handled(a) : a \in Bots} = {}
                   /\ Ids(obs.pushed) \subseteq Ids(commands[target[b][1].handle]))
    /\ [][\A b \in Bots : Handled(b)' # Handled(b) => (pc = Idle /\ At(b, "polled")')]_vars

\* a tick that drained a command and whose tree then enqueued one
C7_Witness ==
    /\ pc.at = "ticked"
    /\ processed # <<>>
    /\ obs.pushed # <<>>

\* C8 (as stated): every command enqueued for a bot is processed exactly once, by that bot,
\* and in the order of enqueueing, also when Damage and Impact commands are interleaved.
C8_FifoAcrossKinds ==
    \A b \in Bots :
        At(b, "polled") =>
            /\ Ids(processed) \cup done[b] = sent[b]
            /\ \A i, j \in 1 .. Len(processed) : i < j => processed[i].id < processed[j].id

\* C8 (amended): every command enqueued for a bot is processed exactly once, by that bot;
\* commands of one kind are processed in the order of enqueueing; and a drain processes
\* every pending Damage command before every pending Impact command, whatever their
\* order of enqueueing.
C8_OnceAndFifoWithinKind ==
    \A b \in Bots :
        At(b, "polled") =>
            /\ \A i, j \in 1 .. Len(processed) : i # j => processed[i].id # processed[j].id
            /\ Ids(processed) \cap done[b] = {}
            /\ Ids(processed) \cup done[b] = sent[b]
            /\ \A a \in Bots \ {b} : Ids(processed) \cap (sent[a] \cup done[a]) = {}
            /\ \A d \in done[b] : \A p \in Ids(processed) : d < p
            /\ \A i, j \in 1 .. Len(processed) :
                  (i < j /\ processed[i].kind = processed[j].kind) =>
                      processed[i].id < processed[j].id
            /\ \A i, j \in 1 .. Len(processed) :
                  i < j => ~(processed[i].kind = "Impact" /\ processed[j].kind = "Damage")

\* a drain that processed a Damage command ahead of an Impact command enqueued before it
C8_Witness ==
    /\ pc.at = "polled"
    /\ Len(processed) = 2
    /\ processed[1].kind = "Damage"
    /\ processed[2].kind = "Impact"
    /\ processed[2].id < processed[1].id

\* C9: a drain that finds both queues empty changes nothing: health, last_health, target,
\* restoration_time, head_exploded and both queues keep their values, nothing is handled
\* and no sound is played.
C9_EmptyDrainIsNoOp ==
    [][\A b \in Bots :
          (pc = Idle /\ At(b, "polled")' /\ commands[b] = <<>> /\ commands_queue[b] = <<>>) =>
              /\ UNCHANGED <<health, last_health, target, restoration_time, head_exploded,
                             commands, commands_queue>>
              /\ processed' = <<>>
              /\ obs'.grunts = 0]_vars

\* an empty drain of a bot that an earlier drain left wounded, below its last grunt level
C9_Witness ==
    /\ pc.at = "polled"
    /\ processed = <<>>
    /\ done[Running] # {}
    /\ health[Running] < last_health[Running]

\* the shot of log entry e was no critical head shot
NonCritical(e) ==
    \/ e.hitbox # "head"
    \/ e.probability <= 0
    \/ e.probability < 100 /\ ~e.roll

\* C10: a drained Damage command of amount A that is no critical head shot lowers the
\* bot's health by exactly A: each such command takes A off the health it found, each
\* command finds the health its predecessor left, and the drain leaves the health the last
\* command left.
C10_PlainDamageSubtractsAmount ==
    [][\A b \in Bots :
          (pc = Idle /\ At(b, "polled")') =>
              LET log == processed'
                  n == Len(commands[b])
              IN /\ Len(log) >= n
                 /\ \A k \in 1 .. Len(log) :
                       /\ log[k].before = (IF k = 1 THEN health[b] ELSE log[k - 1].after)
                       /\ k <= n => log[k].kind = "Damage" /\ log[k].amount = commands[b][k].amount
                       /\ k > n => log[k].after = log[k].before
                       /\ (log[k].kind = "Damage" /\ NonCritical(log[k])) =>
                             log[k].after = log[k].before - log[k].amount
                 /\ health'[b] = (IF log = <<>> THEN health[b] ELSE log[Len(log)].after)
                 /\ (n = 1 /\ NonCritical(log[1])) =>
                       health'[b] = health[b] - commands[b][1].amount]_vars

\* a head shot whose critical roll failed took exactly its amount
C10_Witness ==
    /\ pc.at = "polled"
    /\ \E k \in 1 .. Len(processed) :
          /\ processed[k].kind = "Damage"
          /\ processed[k].hitbox = "head"
          /\ processed[k].probability = 50
          /\ ~processed[k].roll
          /\ processed[k].after = processed[k].before - processed[k].amount
          /\ health[Running] = processed[Len(processed)].after


\* the command of log entry e staggered the bot: the timer is armed, the grunt level is
\* re-based on the health the command left and one pain sound was picked
Staggered(e) ==
    /\ e.now.restoration_time = RESTORATION_TIME
    /\ e.now.last_health = e.after
    /\ e.now.sounds = e.was.sounds + 1

\* the command of log entry e left timer, grunt level and sounds as it found them
NotStaggered(e) ==
    /\ e.now.restoration_time = e.was.restoration_time
    /\ e.now.last_health = e.was.last_health
    /\ e.now.sounds = e.was.sounds

\* the health lost since the grunt level was last re-based, the command of e included
DropSinceLastGrunt(e) == e.was.last_health - e.after

C12_OnePainSoundPerWindow ==
    \A b \in Bots :
        At(b, "polled") =>
            \A k \in 1 .. Len(processed) :
                (processed[k].kind = "Damage" /\ processed[k].was.restoration_time > 0) =>
                    processed[k].now.sounds = processed[k].was.sounds


\* the command of log entry e was not amplified: it took its amount and left the
\* head-destruction flag as it found it
Plain(e) == e.after = e.before - e.amount /\ e.now.head_exploded = e.was.head_exploded

\* what every Damage command does whose critical probability or hit box rules the
\* critical head shot out
NeverAmplified(e) ==
    /\ (e.hitbox = "head" /\ e.probability <= 0) => Plain(e)
    /\ e.hitbox # "head" => Plain(e)

Combatant(e) ==
    IF e.who \in Actors /\ e.who \in alive THEN {e.who}
    ELSE IF e.who \in Weapons THEN {o \in Player : o \in alive}
    ELSE {}

\* C14: a drained Damage command whose source resolves to a combatant, or to a weapon
\* owned by a combatant, makes that combatant the bot's target, at the combatant's current
\* position, whatever target the bot held before; the head-shot and stagger steps of the
\* command run with the new target in place.
C14_DamageAcquiresShooter ==
    \A b \in Bots :
        At(b, "polled") =>
            /\ \A k \in 1 .. Len(processed) :
                  \A c \in Combatant(processed[k]) :
                      processed[k].now.target = <<[handle |-> c, position |-> position[c]]>>
            /\ processed # <<>> => target[b] = processed[Len(processed)].now.target

\* a shot of the moved player's weapon replaced the target the bot held
C14_Witness ==
    /\ pc.at = "polled"
    /\ \E k \in 1 .. Len(processed) :
          /\ processed[k].who \in Weapons
          /\ processed[k].was.target # NoTarget
          /\ processed[k].was.target # processed[k].now.target
          /\ processed[k].now.target[1].handle = 3
          /\ processed[k].now.target[1].position = 13


\* the shot of log entry e was a critical head shot for certain
Critical(e) ==
    /\ e.hitbox = "head"
    /\ e.probability >= 100 \/ (e.probability > 0 /\ e.roll)

\* C15: a Damage command whose source resolves to no combatant (empty handle, removed
\* entity, weapon whose owner is gone) leaves the bot's target exactly as it was, and its
\* damage, head-shot step and stagger step are applied as for any other command.
C15_UnresolvedSourceSkipsTargetOnly ==
    \A b \in Bots :
        At(b, "polled") =>
            \A k \in 1 .. Len(processed) :
                (processed[k].kind = "Damage" /\ Combatant(processed[k]) = {}) =>
                    /\ processed[k].now.target = processed[k].was.target
                    /\ NonCritical(processed[k]) => Plain(processed[k])
                    /\ Critical(processed[k]) =>
                          /\ processed[k].after =
                                processed[k].before - 1001 * processed[k].amount
                          /\ processed[k].now.head_exploded
                    /\ IF DropSinceLastGrunt(processed[k]) > 20 /\ processed[k].after > 0
                       THEN Staggered(processed[k])
                       ELSE NotStaggered(processed[k])

\* a head shot by the player, who had left the level, blew up the head of a bot that
\* kept the target it had
C15_Witness ==
    /\ pc.at = "polled"
    /\ \E k \in 1 .. Len(processed) :
          /\ processed[k].who \in Player
          /\ processed[k].who \notin alive
          /\ processed[k].was.target # NoTarget
          /\ processed[k].now.target = processed[k].was.target
          /\ ~processed[k].was.head_exploded
          /\ processed[k].now.head_exploded


\* what a bot holds after acquiring combatant c
Tracking(c) == <<[handle |-> c, position |-> position[c]]>>

\* the target a drain with the given log leaves: the combatant of the last command whose
\* source resolved, else the target held before
TargetAfter(log, old) ==
    LET ks == {k \in 1 .. Len(log) : Combatant(log[k]) # {}}
    IN IF ks = {} THEN old
       ELSE LET last == CHOOSE k \in ks : \A j \in ks : j <= k
            IN Tracking(CHOOSE c \in Combatant(log[last]) : TRUE)

\* C16: a bot tracks at most one target and it is the most recently acquired one: each
\* acquisition (set_target or a drained shot) replaces handle and position together, and
\* when the target is cleared the bot has none, not an earlier one.
C16_OneTargetMostRecent ==
    /\ [](\A b \in Bots : Len(target[b]) <= 1)
    /\ [][\A b \in Bots :
             /\ (pc = Idle /\ At(b, "polled")') =>
                   target'[b] = TargetAfter(processed', target[b])
             /\ (target'[b] # target[b] /\ ~At(b, "polled")') =>
                   /\ pc = Idle /\ pc' = Idle
                   /\ \/ target'[b] = NoTarget
                      \/ \E a \in Actors : a \in alive /\ target'[b] = Tracking(a)]_vars

\* a shot replaced, handle and position, the target that set_target had recorded
C16_Witness ==
    /\ pc.at = "polled"
    /\ \E k \in 1 .. Len(processed) :
          /\ processed[k].was.target = <<[handle |-> 3, position |-> 13]>>
          /\ processed[k].now.target = <<[handle |-> 1, position |-> 1]>>
    /\ target[Running] = <<[handle |-> 1, position |-> 1]>>


\* C17: once the entity a bot tracks has been removed from the world, the bot's target is
\* empty by its next tick, so that the gate leaf of that tick fails; the removal of any
\* other entity leaves the target as it is.
C17_RemovedTargetIsCleared ==
    /\ [](\A b \in Bots :
             (At(b, "gated") /\ target[b] # NoTarget) => target[b][1].handle \in alive)
    /\ [][\A b \in Bots : \A a \in alive \ alive' :
             (target[b] # NoTarget /\ target[b][1].handle # a) => target'[b] = target[b]]_vars


\* C18: while a bot has no target, in every tick the gate leaf fails, the action leaf
\* returns Failure and starts no attack: it re-rolls no index, rewinds, enables or speeds
\* up no clip and leaves is_attacking false.
C18_NoTargetNoAttack ==
    [][\A b \in Bots :
          target[b] = NoTarget =>
              /\ (At(b, "tree") /\ pc'.at = "gated") => obs'.gate = "Failure"
              /\ LeafStep(b) =>
                    /\ obs'.action = "Failure"
                    /\ behavior'[b].attack_animation_index = behavior[b].attack_animation_index
                    /\ \A i \in AttackIndices(DefOf(b)) :
                          /\ animations'[b][i].enabled = animations[b][i].enabled
                          /\ animations'[b][i].speed = animations[b][i].speed
                          /\ animations'[b][i].ended = animations[b][i].ended
                    /\ ~ctx'.is_attacking]_vars


\* the step of b's tick in which the animation machines are applied
ApplyStep(b) == At(b, "ticked") /\ pc'.at = "applied"

\* what the behaviour tree has produced in the tick under way: the action leaf's writes
\* where it ran, the values the context was built with where it did not
AttackIntent(b) == obs.ticked /\ obs.action # "none" /\ ctx.is_attacking
IndexIntent(b) == IF obs.ticked THEN behavior[b].attack_animation_index ELSE 0

\* C19: in every tick of on_update each of the two animation machines has apply called
\* exactly once, after the tree has been ticked and its intents read back, with the
\* intents the tree produced in that tick and the death flag as it is at that moment.
C19_MachinesAppliedOncePerTick ==
    [][\A b \in Bots :
          /\ ApplyStep(b) =>
                /\ ctx.built /\ obs.gate # "none"
                /\ obs.applies = <<>>
                /\ obs'.applies =
                      << [machine |-> "lower", dead |-> health[b] <= 0],
                         [machine |-> "upper", attack |-> AttackIntent(b),
                          dead |-> health[b] <= 0,
                          attack_animation_index |-> IndexIntent(b)] >>
          /\ ~ApplyStep(b) =>
                /\ active_state'[b] = active_state[b]
                /\ pc'.bot = b => obs'.applies = <<>>]_vars

\* both machines have been applied in a tick in which the tree started an attack with a
\* clip other than the first, on a bot that is alive
C19_Witness ==
    \E b \in Bots :
        /\ At(b, "applied")
        /\ Len(obs.applies) = 2
        /\ obs.applies[2].attack
        /\ obs.applies[2].attack_animation_index > 0
        /\ ~obs.applies[1].dead


\* queue t is queue s with commands appended
Extends(s, t) == Len(s) <= Len(t) /\ SubSeq(t, 1, Len(s)) = s

\* a step of bot b's on_update
TickStep(b) == pc'.bot = b

\* the step in which bot b drains its queues
DrainStep(b) == pc = Idle /\ pc' = [bot |-> b, at |-> "polled"]

\* C20: whatever the order in which the bots are updated, a bot's tick changes another
\* combatant only by appending commands to that combatant's queue: the victim's health,
\* target, restoration timer and animation state are not touched, and a queued command
\* is removed only by the drain of the bot that owns the queue.
C20_OthersChangedOnlyThroughQueue ==
    [][\A b \in Bots :
          /\ TickStep(b) =>
                /\ \A c \in Actors \ {b} :
                      /\ health'[c] = health[c]
                      /\ last_health'[c] = last_health[c]
                      /\ Extends(commands[c], commands'[c])
                /\ \A c \in Bots \ {b} :
                      /\ target'[c] = target[c]
                      /\ restoration_time'[c] = restoration_time[c]
                      /\ head_exploded'[c] = head_exploded[c]
                      /\ behavior'[c] = behavior[c]
                      /\ animations'[c] = animations[c]
                      /\ active_state'[c] = active_state[c]
                      /\ commands_queue'[c] = commands_queue[c]
          /\ ~DrainStep(b) =>
                /\ Extends(commands[b], commands'[b])
                /\ Extends(commands_queue[b], commands_queue'[b])]_vars

\* a bot's hit has been appended behind a command its victim had not yet drained
C20_Witness ==
    \E b \in Bots : \E c \in Bots \ {b} :
        /\ At(b, "ticked")
        /\ obs.pushed # <<>>
        /\ target[b] # NoTarget
        /\ target[b][1].handle = c
        /\ Len(commands[c]) > Len(obs.pushed)
        /\ health[c] = FULL_HEALTH


\* C21: a missing definition for a requested kind is raised at load time and aborts the
\* startup: it never first surfaces once bots are being ticked, when a bot of the missing
\* kind is initialised.
C21_MissingDefinitionFatalAtLoad ==
    \A b \in Bots :
        (At(b, "panicked") /\ kind[b] \notin DOMAIN definitions) => ticks = 0


\* C22: every tick of the melee leaves completes within the tick for every loaded
\* definition, an incorrect one such as an empty attack list included: such a bot is inert
\* and its tick never fails.
C22_IncorrectDefinitionIsInert ==
    \A b \in Bots : kind[b] \in DOMAIN definitions => ~At(b, "panicked")


\* C23: in every tick of the action leaf, whichever branches are taken, the timer is
\* counted down by the tick delta exactly once: its value after the tick is the cooldown
\* if the reset fired in this tick, else its value before the tick, minus dt; no other
\* step changes the timer.
C23_TimerCountedDownOncePerTick ==
    [][\A b \in Bots :
          LET before == behavior[b].attack_timeout
              fired == before < 0 /\ CurrentClip(b).ended
          IN /\ LeafStep(b) =>
                   /\ obs'.reset = fired
                   /\ behavior'[b].attack_timeout =
                         (IF fired THEN ATTACK_COOLDOWN ELSE before) - frame_dt
             /\ ~LeafStep(b) => behavior'[b].attack_timeout = before]_vars

\* a tick without a target re-armed the timer, started an attack and counted the timer down
C23_Witness ==
    \E b \in Bots :
        /\ At(b, "ticked")
        /\ obs.ticked /\ obs.reset /\ obs.started
        /\ target[b] = NoTarget
        /\ obs.timeout_before < 0
        /\ behavior[b].attack_timeout = ATTACK_COOLDOWN - frame_dt


\* the drained signal e of bot b may not have an effect: it is not the hit signal, or the
\* combat machine is not in its attack state, or the bot could be shooting
Ineffective(b, e) ==
    \/ e # HIT_SIGNAL
    \/ active_state[b] # "attack"
    \/ (active_state[b] = "aim" /\ DefOf(b).can_use_weapons)

\* C24: a drained timeline signal has no melee effect (no Damage command enqueued, no
\* attack sound played) when it is not the hit signal, or the combat machine's active
\* state is not the attack state, or the bot could instead be shooting (aim state and a
\* definition that allows weapons).
C24_IneffectiveSignalsDoNothing ==
    [][\A b \in Bots :
          LeafStep(b) =>
              LET drained == obs'.events
                  effective == {k \in 1 .. Len(drained) : ~Ineffective(b, drained[k])}
              IN /\ Len(obs'.pushed) <= Cardinality(effective)
                 /\ obs'.sounds <= Cardinality(effective)
                 /\ effective = {} =>
                       /\ obs'.pushed = <<>>
                       /\ obs'.sounds = 0
                       /\ commands' = commands]_vars

\* the leaf of a bot that may use weapons drained a hit signal while its combat machine
\* was aiming, and nothing was enqueued or played
C24_Witness ==
    \E b \in Bots :
        /\ At(b, "ticked")
        /\ obs.ticked
        /\ target[b] # NoTarget
        /\ \E k \in 1 .. Len(obs.events) : obs.events[k] = HIT_SIGNAL
        /\ active_state[b] = "aim"
        /\ DefOf(b).can_use_weapons
        /\ obs.pushed = <<>>
        /\ obs.sounds = 0


\* C25: in every tick of the action leaf the timeline signals of the attack clip that is
\* playing are drained: after the tick that clip's signal queue is empty, so that no hit
\* signal of an earlier tick is left to be registered later, also when the bot has no
\* target.
C25_SignalsDrainedEveryTick ==
    [][\A b \in Bots :
          LeafStep(b) =>
              animations'[b][behavior[b].attack_animation_index].events = <<>>]_vars


\* C26: in any single tick the action leaf plays at most one attack sound, however many
\* signals it drains in that tick, and it plays a sound only for a hit signal that passed
\* the attack-state and cannot-shoot conditions.
C26_AtMostOneSoundPerTick ==
    [][\A b \in Bots :
          LeafStep(b) =>
              /\ obs'.sounds <= 1
              /\ obs'.sounds > 0 =>
                    \E k \in 1 .. Len(obs'.events) : ~Ineffective(b, obs'.events[k])]_vars


\* the step in which the gate leaf of bot b is ticked
GateStep(b) == At(b, "tree") /\ pc'.at = "gated"

SplashStep == last_splash'.n = last_splash.n + 1

\* C28: apply_splash_damage delivers its effect only through the command queues: it appends
\* exactly one Damage command, with the given source, amount and critical probability and
\* no hit box, to the queue of every actor whose distance to the centre is <= radius,
\* appends nothing to the queue of an actor farther away, and changes no actor's health or
\* target directly.
C28_SplashOnlyEnqueues ==
    [][SplashStep =>
          LET s == last_splash'
          IN /\ \A a \in alive :
                   IF (IF position[a] >= s.center THEN position[a] - s.center
                       ELSE s.center - position[a]) <= s.radius
                   THEN /\ Len(commands'[a]) = Len(commands[a]) + 1
                        /\ SubSeq(commands'[a], 1, Len(commands[a])) = commands[a]
                        /\ LET c == commands'[a][Len(commands'[a])]
                           IN /\ c.kind = "Damage"
                              /\ c.who = s.who
                              /\ c.amount = s.amount
                              /\ c.critical_shot_probability = s.critical_shot_probability
                              /\ c.hitbox = "none"
                   ELSE commands'[a] = commands[a]
             /\ \A a \in Actors \ alive : commands'[a] = commands[a]
             /\ UNCHANGED <<health, last_health, target, restoration_time, head_exploded,
                            commands_queue, alive, position>>]_vars

\* an explosion has reached an actor exactly at its radius and an actor at its centre,
\* and has spared the player standing farther away
C28_Witness ==
    /\ pc = Idle
    /\ last_splash.n > 0
    /\ last_splash.radius = 1
    /\ \E a \in Bots, c \in Bots :
          /\ position[a] - last_splash.center = 0 - last_splash.radius
          /\ position[c] = last_splash.center
          /\ commands[a] # <<>> /\ commands[a][Len(commands[a])].amount = last_splash.amount
          /\ commands[c] # <<>> /\ commands[c][Len(commands[c])].amount = last_splash.amount
    /\ \E p \in Player : position[p] > last_splash.center + last_splash.radius
                         /\ sent[p] = {}


\* the clip is being advanced by the engine's animation update
Advancing(clip) == clip.enabled /\ clip.speed > 0

\* clip i of bot b is started by the step: it is left rewound, enabled and at the attack
\* speed, and was not so before
StartedBy(b, i) ==
    /\ Advancing(animations'[b][i]) /\ ~animations'[b][i].ended
    /\ ~Advancing(animations[b][i]) \/ animations[b][i].ended

\* C29: the attack clip has one driver per tick: in any tick at most one start of an
\* attack clip is issued for a bot, and after any sequence of ticks at most one of the
\* bot's attack clips is advancing (enabled with positive playback speed), namely the clip
\* at the leaf's selected attack index.
C29_OneAdvancingClip ==
    /\ [](\A b \in Bots : \A i \in DOMAIN animations[b] :
             Advancing(animations[b][i]) => i = behavior[b].attack_animation_index)
    /\ [][\A b \in Bots :
             /\ LeafStep(b) =>
                   /\ Cardinality({i \in DOMAIN animations[b] : StartedBy(b, i)}) <= 1
                   /\ \A i \in DOMAIN animations[b] :
                         StartedBy(b, i) =>
                             obs'.started /\ i = behavior'[b].attack_animation_index
             /\ ~LeafStep(b) =>
                   \A i \in DOMAIN animations[b] :
                       /\ animations'[b][i].enabled = animations[b][i].enabled
                       /\ animations'[b][i].speed = animations[b][i].speed]_vars

\* the leaf has moved on from the clip it had selected: that clip is frozen and the newly
\* selected one is advancing
C29_Witness ==
    \E b \in Bots : \E i \in DOMAIN animations[b] :
        /\ i # behavior[b].attack_animation_index
        /\ animations[b][i].enabled
        /\ animations[b][i].speed = 0
        /\ Advancing(CurrentClip(b))
        /\ ~CurrentClip(b).ended


\* C30: a Damage command produced by melee hit registration never causes a critical head
\* shot and never changes the victim's target: it carries critical probability 0, no hit
\* box and no source, so draining it leaves the victim's target and head-destruction flag
\* unchanged and applies no amplification; only health and the stagger state can change.
C30_MeleeDamageIsPlain ==
    [][\A b \in Bots :
          /\ LeafStep(b) =>
                \A k \in 1 .. Len(obs'.pushed) :
                    /\ obs'.pushed[k].kind = "Damage"
                    /\ obs'.pushed[k].who = HANDLE_NONE
                    /\ obs'.pushed[k].hitbox = "none"
                    /\ obs'.pushed[k].critical_shot_probability = 0
          /\ DrainStep(b) =>
                /\ \A k \in 1 .. Len(processed') :
                      processed'[k].kind = "Damage" =>
                          /\ processed'[k].id \in sent[b]
                          /\ processed'[k].now.target = processed'[k].was.target
                          /\ processed'[k].now.head_exploded = processed'[k].was.head_exploded
                          /\ processed'[k].after = processed'[k].before - processed'[k].amount
                /\ target'[b] = target[b]
                /\ head_exploded'[b] = head_exploded[b]]_vars

\* a bot has drained a melee hit that staggered it, with the critical roll in favour, and
\* still tracks its opponent with its head intact
C30_Witness ==
    \E b \in Bots :
        /\ At(b, "polled")
        /\ \E k \in 1 .. Len(processed) :
              /\ processed[k].kind = "Damage"
              /\ processed[k].roll
              /\ processed[k].amount > GRUNT_THRESHOLD
              /\ processed[k].now.restoration_time = RESTORATION_TIME
        /\ target[b] # NoTarget
        /\ target[b][1].handle = 3 - b
        /\ ~head_exploded[b]
        /\ health[b] < FULL_HEALTH


\* C31: whenever hit registration enqueues a Damage command, its amount is the configured
\* damage of the attack whose clip emitted the drained hit signal, also in a tick in which
\* the leaf selects a new attack index before it drains the signals of the clip that was
\* selected at the start of the tick.
C31_AmountOfTheEmittingClip ==
    [][\A b \in Bots :
          LeafStep(b) =>
              \A k \in 1 .. Len(obs'.pushed) :
                  obs'.pushed[k].amount =
                      AttackAmount(DefOf(b), behavior[b].attack_animation_index)]_vars


\* i is an index of the bot's list of attack clips and of its definition's attack list
ValidAttackIndex(b, i) ==
    /\ 0 <= i
    /\ i < Len(DefOf(b).attack_damage)
    /\ i \in DOMAIN animations[b]

\* C32: after any sequence of ticks of the action leaf on a bot with a non-empty attack
\* list, the leaf's attack_animation_index and the index written to the context are valid
\* indices of the combat machine's list of attack clips and of the definition's attack
\* list (0 <= index < length), starting from the default index 0.
C32_AttackIndexInRange ==
    \A b \in Bots :
        (b \in alive /\ Len(DefOf(b).attack_damage) > 0) =>
            /\ ValidAttackIndex(b, behavior[b].attack_animation_index)
            /\ pc.bot = b => ValidAttackIndex(b, ctx.attack_animation_index)
            /\ (pc.bot = b /\ obs.ticked) =>
                  ctx.attack_animation_index = behavior[b].attack_animation_index

\* in a later tick the leaf has drawn the last index of the list and written it to the
\* context
C32_Witness ==
    \E b \in Bots :
        /\ At(b, "ticked")
        /\ obs.ticked /\ obs.started
        /\ ticks > 0
        /\ behavior[b].attack_animation_index = Len(DefOf(b).attack_damage) - 1
        /\ ctx.attack_animation_index = behavior[b].attack_animation_index
        /\ obs.index_before # behavior[b].attack_animation_index


\* C33: a bot that keeps its target, takes no further damage and is ticked for ever with
\* dt > 0, every started clip reaching its end, sees its gate leaf succeed and its action
\* leaf start a new attack again and again: neither timer blocks it for ever.
C33_MeleeNeverBlocked ==
    /\ <>(At(1, "gated") /\ obs.gate = "Success")
    /\ []<>(At(1, "ticked") /\ obs.started)

\* an attack is started after an earlier clip has ended and the cooldown has run out, long
\* after the restoration timer has run out
C33_Witness ==
    /\ At(1, "ticked")
    /\ obs.started
    /\ obs.since_end > 0
    /\ restoration_time[1] = 0 - MaxDebt


\* the nodes of the trails a container holds
Held(c) == {c[i].node : i \in DOMAIN c}

\* the trail of node n in container c
TrailOf(c, n) == c[CHOOSE i \in DOMAIN c : c[i].node = n]

\* a step of ShotTrailContainer::update: the container changes and does not grow
UpdateStep ==
    /\ container' # container
    /\ Len(container') <= Len(container)

\* C34: after every ShotTrailContainer.update every trail still in the container has
\* lifetime < max_lifetime; a trail's lifetime never decreases and never exceeds
\* max_lifetime; each trail's scene node is removed exactly once, in the update in which
\* the trail is dropped from the container, which is the first update in which its
\* lifetime reaches max_lifetime.
C34_TrailLifetime ==
    [][/\ \A i \in DOMAIN container' :
             /\ container'[i].lifetime <= container'[i].max_lifetime
             /\ UpdateStep => container'[i].lifetime < container'[i].max_lifetime
       /\ \A n \in Held(container) \cap Held(container') :
             /\ TrailOf(container', n).lifetime >= TrailOf(container, n).lifetime
             /\ TrailOf(container', n).max_lifetime = TrailOf(container, n).max_lifetime
       /\ \A n \in Nodes :
             /\ removed'[n] <= 1
             /\ removed'[n] # removed[n] <=> n \in Held(container) \ Held(container')
             /\ n \in Held(container) \ Held(container') => UpdateStep
             /\ (UpdateStep /\ n \in Held(container)) =>
                   (n \notin Held(container') <=>
                       TrailOf(container, n).lifetime + frame_dt
                           >= TrailOf(container, n).max_lifetime)]_vars

\* C34 witness: a trail has been dropped and its node removed while a younger trail,
\* already aged by an update, is still held
C34_Witness ==
    /\ \E n \in Nodes : removed[n] = 1 /\ n \notin Held(container)
    /\ \E i \in DOMAIN container :
          /\ container[i].lifetime > 0
          /\ container[i].lifetime < container[i].max_lifetime


\* a step of LaserSight::update with a reaction running
SightStep ==
    /\ reaction_state.kind # "None"
    /\ sight_obs'.elapsed > sight_obs.elapsed

\* a step of LaserSight::set_reaction
SetReactionStep ==
    /\ reaction_state'.kind # "None"
    /\ sight_obs' = NoSightObs
    /\ sight_obs # NoSightObs \/ reaction_state' # reaction_state

\* the timing of a reaction: it ends in the first update in which the accumulated dt
\* reaches its duration, and set_reaction restarts the full duration
ReactionTiming ==
    /\ SightStep =>
          /\ reaction_state'.kind = "None" <=>
                sight_obs'.elapsed >= ReactionTime(reaction_state.kind)
          /\ reaction_state'.kind \in {"None", reaction_state.kind}
    /\ SetReactionStep =>
          reaction_state'.time_remaining = ReactionTime(reaction_state'.kind)

\* C35 (timing part): a reaction returns to None in the first update in which the
\* accumulated dt reaches its duration, and a later set_reaction replaces the running
\* reaction and restarts its full duration
C35_ReactionTimingHolds == [][ReactionTiming]_vars

\* a reaction has been replaced while running and the new one has been updated
C35_TimingWitness ==
    /\ reaction_state.kind = "EnemyKilled"
    /\ sight_obs.elapsed > 0
    /\ sight_obs.elapsed + reaction_state.time_remaining = ENEMY_KILLED_TIME

\* C35: a laser-sight reaction is a timed state: it returns to None in the first update in
\* which the accumulated dt reaches its duration, a later set_reaction replaces the running
\* reaction and restarts its full duration, and in every update in which a reaction is
\* still active the interpolation parameter used for the colour and the dilation lies
\* within (0, 1].
C35_ReactionIsTimed ==
    [][/\ ReactionTiming
       /\ (SightStep /\ reaction_state'.kind # "None") =>
             (0 < sight_obs'.t /\ sight_obs'.t <= 100)]_vars

====
